---- MODULE Spec2Model ----
(***************************************************************************)
(* The audio decode-and-playback pipeline of the media player:             *)
(* AudioDecoder (decode worker thread, SDL output callback, control        *)
(* thread API) and the MediaPlayer transport commands that drive it.       *)
(*                                                                         *)
(* Three execution contexts are modelled: the control thread (cpc), the    *)
(* decode worker started by startPlayback (wpc) and the SDL audio thread   *)
(* that runs audioCallback (cbpc).  The media source is a fixed sequence   *)
(* of packets 0..NumPackets-1; packet p carries presentation time p.       *)
(***************************************************************************)
EXTENDS Integers, Sequences, FiniteSets, TLC

\* ------------------------------------------------------------------ bounds
\* Number of packets in the media source.
NumPackets == 16
\* Most frames the decoder yields for one packet.
MaxFramesPerPacket == 2
\* Size in bytes of the buffer the output device asks the callback to fill
\* (audioSpec.size, fixed when the device is opened).
DeviceLen == 2
\* Number of control-thread API calls explored in one behaviour when every
\* call of the engine may be made.
MaxOps == 3
\* Number of control-thread API calls explored in one behaviour of a
\* specification that makes only some of the calls.
MaxCalls == 4
\* Number of frames in the video stream; frame v carries presentation time v.
NumVideoFrames == 1

\* ------------------------------------------------------- program constants
\* decodingLoop throttles the worker when the queue holds more than this.
HighWatermark == 10
\* ... and releases it once the queue holds at most this.
LowWatermark == 5

\* ------------------------------------------------------------- the source
\* Packet p of the source: a packet of another stream, a damaged audio packet
\* (the decoder may reject it), or a sound audio packet.
PacketKind(p) ==
    IF p = 1 THEN "other"
    ELSE IF p = 14 THEN "bad"
    ELSE "audio"

\* Number of frames avcodec_receive_frame yields for audio packet p.
FramesOf(p) == IF p = 11 THEN MaxFramesPerPacket ELSE 1

\* Byte length of the block converted from a frame of packet p.
BlockSize(p) == 1 + (p % 2)

\* Positions the control thread seeks to.
SeekTargets == {0, 9}

VARIABLES
    formatContext,     \* TRUE iff a source is open (formatContext != nullptr)
    srcPos,            \* demuxer read position: next packet av_read_frame returns
    audioDevice,       \* "closed" (0), "paused" or "running" (SDL device state)
    isDecoding, playbackStarted, playbackPaused, shouldStop,
    currentTime,
    audioFrameQueue,   \* sequence of blocks
    audioBuffer,       \* the block being consumed by the callback
    bufferPosition,
    nPushed, nPopped,  \* history: pushes / pops since the queue was last cleared
    wpc, wpkt,         \* decode worker: position, packet in hand
    cbpc, bytesNeeded, stream,   \* output callback: position, locals, destination
    cpc, cstack, seekArg, wasPlaying, opsLeft, ret,  \* control thread
    playing, hasAudio, hasVideo,  \* MediaPlayer
    videoPos,          \* VideoDecoder: next video frame av_read_frame returns
    videoTime          \* VideoDecoder: frame->pts * timeBase

engineVars == <<formatContext, srcPos, audioDevice, isDecoding, playbackStarted,
                playbackPaused, shouldStop, currentTime>>
queueVars == <<audioFrameQueue, audioBuffer, bufferPosition, nPushed, nPopped>>
workerVars == <<wpc, wpkt>>
cbVars == <<cbpc, bytesNeeded, stream>>
ctlVars == <<cpc, cstack, seekArg, wasPlaying, opsLeft, ret>>
playerVars == <<playing, hasAudio, hasVideo, videoPos, videoTime>>
vars == <<engineVars, queueVars, workerVars, cbVars, ctlVars, playerVars>>

\* ------------------------------------------------------------------ blocks
\* struct AudioFrame: data (its size), timestamp; sn/old/stale are history
\* marks that identify the block: its serial number since the last clear,
\* whether it was present when a clearQueue began, whether it was decoded from
\* a packet read before the last av_seek_frame.
MkBlock(p, n, st) ==
    [pts |-> p, size |-> BlockSize(p), sn |-> n, old |-> FALSE, stale |-> st]

NoBlock == [pts |-> 0, size |-> 0, sn |-> 0, old |-> FALSE, stale |-> FALSE]

NoPkt == [idx |-> 0, left |-> 0, stale |-> FALSE, conv |-> "ok"]

\* frame->pts of a frame fresh from av_frame_alloc (AV_NOPTS_VALUE).
NoPts == -1

NoRet == [op |-> "none", ok |-> TRUE, t |-> 0, wasPlaying |-> FALSE]

MkRet(o, k, t, w) == [op |-> o, ok |-> k, t |-> t, wasPlaying |-> w]

\* AudioDecoder::AudioDecoder and MediaPlayer::MediaPlayer, with the number
\* of calls that the control thread is going to make.
InitOps(n) ==
    /\ formatContext = FALSE
    /\ srcPos = 0
    /\ audioDevice = "closed"
    /\ isDecoding = FALSE
    /\ playbackStarted = FALSE
    /\ playbackPaused = FALSE
    /\ shouldStop = FALSE
    /\ currentTime = 0
    /\ audioFrameQueue = <<>>
    /\ audioBuffer = NoBlock
    /\ bufferPosition = 0
    /\ nPushed = 0
    /\ nPopped = 0
    /\ wpc = "none"
    /\ wpkt = NoPkt
    /\ cbpc = "idle"
    /\ bytesNeeded = 0
    /\ stream = <<>>
    /\ cpc = "idle"
    /\ cstack = <<>>
    /\ seekArg = 0
    /\ wasPlaying = FALSE
    /\ opsLeft = n
    /\ ret = NoRet
    /\ playing = FALSE
    /\ hasAudio = FALSE
    /\ hasVideo = FALSE
    /\ videoPos = 0
    /\ videoTime = NoPts

Init == InitOps(MaxOps)

LongInit == InitOps(MaxCalls)

\* ------------------------------------------------- mutex and condition variable
\* A queueCondition.wait that keeps queueMutex while the worker is blocked.
queueMutexKeptInWait == wpc \notin {"toblock", "blocked"}

\* queueMutex is held across steps only by the worker between evaluating the
\* wait predicate and blocking in queueCondition.wait.
queueMutexFree == wpc # "toblock"

Threads == {"worker", "callback", "control"}

\* Thread t holds mutex m between two steps: the worker holds queueMutex as
\* above; fillAudioBuffer holds bufferMutex from its first line to its return.
HoldsMutex(t, m) ==
    \/ t = "worker" /\ m = "queueMutex" /\ ~queueMutexFree
    \/ t = "callback" /\ m = "bufferMutex" /\ cbpc \in {"loop", "ret"}

\* The mutexes the next step of thread t acquires: the worker at the top of
\* decodingLoop, when it returns from the wait and when it pushes a block;
\* the callback on entry (bufferMutex) and when it needs the next block
\* (queueMutex); the control thread in clearQueue.
NeedsMutex(t) ==
    IF t = "worker"
    THEN IF wpc \in {"top", "woken"} \/ (wpc = "push" /\ wpkt.conv = "ok")
         THEN {"queueMutex"} ELSE {}
    ELSE IF t = "callback"
    THEN IF cbpc = "idle" /\ audioDevice = "running" THEN {"bufferMutex"}
         ELSE IF cbpc = "loop" /\ bufferPosition >= audioBuffer.size
         THEN {"queueMutex"} ELSE {}
    ELSE IF cpc \in {"seek_clear", "stop_join"} THEN {"queueMutex"} ELSE {}

\* Thread t cannot take its next step: a mutex it needs is held by another
\* thread, or it is the worker blocked in queueCondition.wait.
BlockedThread(t) ==
    \/ \E m \in NeedsMutex(t) : \E h \in Threads \ {t} : HoldsMutex(h, m)
    \/ t = "worker" /\ wpc = "blocked"

\* queueCondition.notify_one / notify_all: wakes the worker if it is blocked
\* in the wait, and is lost otherwise.
Notify(w) == IF w = "blocked" THEN "woken" ELSE w

\* AudioDecoder::isPlaying
isPlaying == playbackStarted /\ ~playbackPaused

\* The process has died (a null dereference or an uncaught exception in the
\* worker, or a data race on the decoder).
crashed == wpc = "crashed"

\* ============================================================ decode worker
\* A wait that ends as soon as the queue is back at the high watermark.
WaitPredNoHysteresis == Len(audioFrameQueue) <= HighWatermark \/ shouldStop

\* decodingLoop: the predicate of queueCondition.wait.
WaitPred == Len(audioFrameQueue) <= LowWatermark \/ shouldStop

\* avcodec_send_packet(codecContext, &packet) >= 0: a sound packet is
\* accepted; a damaged one is rejected or, when the decoder conceals the
\* damage, accepted.
SendResults(p) == IF PacketKind(p) = "bad" THEN {FALSE, TRUE} ELSE {TRUE}

\* convertAudioFrame on a frame of packet p: "ok" (a block of positive
\* length), "none" (swr_get_out_samples <= 0, return false), "error"
\* (swr_convert < 0, return false) or "zero" (swr_convert returns 0). Only a
\* frame of a damaged packet that the decoder accepted fails to convert.
ConvertResults(p) ==
    IF PacketKind(p) = "bad" THEN {"ok", "none", "error", "zero"} ELSE {"ok"}

\* convertAudioFrame with zero converted samples: av_samples_get_buffer_size
\* returns AVERROR(EINVAL) for nb_samples <= 0, data.resize gets that negative
\* int as a size_t and throws std::length_error, which nothing in the worker
\* thread catches.
ConvertThrows(c) == c = "zero"

\* decodeNextFrame up to the receive loop: av_read_frame, the stream check
\* and avcodec_send_packet.
ReadAndSend ==
    IF ~formatContext
    THEN /\ wpc' = "crashed"
         /\ UNCHANGED <<srcPos, wpkt>>
    ELSE IF srcPos >= NumPackets
    THEN /\ wpc' = "done"
         /\ UNCHANGED <<srcPos, wpkt>>
    ELSE /\ srcPos' = srcPos + 1
         /\ IF PacketKind(srcPos) = "other"
            THEN wpc' = "top" /\ wpkt' = NoPkt
            ELSE \E sent \in SendResults(srcPos) :
                 IF ~sent
                 THEN wpc' = "done" /\ wpkt' = NoPkt
                 ELSE /\ wpc' = "recv"
                      /\ wpkt' = [idx |-> srcPos, left |-> FramesOf(srcPos),
                                  stale |-> FALSE, conv |-> "ok"]

\* A worker that throttles at twice the watermark.
QueueFullLate == Len(audioFrameQueue) > HighWatermark + HighWatermark

\* decodingLoop: the check that sends the worker into the wait.
QueueFull == Len(audioFrameQueue) > HighWatermark

\* decodingLoop: the loop condition, the high-watermark check with the first
\* evaluation of the wait predicate, the stop check and the start of
\* decodeNextFrame.
WorkerLoop ==
    /\ wpc = "top"
    /\ IF ~(isDecoding /\ ~shouldStop)
       THEN wpc' = "done" /\ UNCHANGED <<srcPos, wpkt>>
       ELSE IF QueueFull /\ ~WaitPred
       THEN wpc' = "toblock" /\ UNCHANGED <<srcPos, wpkt>>
       ELSE ReadAndSend
    /\ UNCHANGED <<formatContext, audioDevice, isDecoding, playbackStarted,
                   playbackPaused, shouldStop, currentTime>>
    /\ UNCHANGED <<queueVars, cbVars, ctlVars, playerVars>>

\* queueCondition.wait: the predicate was false; release queueMutex and block.
WorkerBlock ==
    /\ wpc = "toblock"
    /\ wpc' = "blocked"
    /\ UNCHANGED <<engineVars, queueVars, wpkt, cbVars, ctlVars, playerVars>>

\* queueCondition.wait after a wake-up: re-acquire queueMutex, re-evaluate the
\* predicate; when it holds, go on to the stop check and decodeNextFrame.
WorkerWake ==
    /\ wpc = "woken"
    /\ IF ~WaitPred
       THEN wpc' = "toblock" /\ UNCHANGED <<srcPos, wpkt>>
       ELSE IF shouldStop
       THEN wpc' = "done" /\ UNCHANGED <<srcPos, wpkt>>
       ELSE ReadAndSend
    /\ UNCHANGED <<formatContext, audioDevice, isDecoding, playbackStarted,
                   playbackPaused, shouldStop, currentTime>>
    /\ UNCHANGED <<queueVars, cbVars, ctlVars, playerVars>>

\* A condition variable may wake without a notification.
SpuriousWake ==
    /\ wpc = "blocked"
    /\ wpc' = "woken"
    /\ UNCHANGED <<engineVars, queueVars, wpkt, cbVars, ctlVars, playerVars>>

\* decodeNextFrame: avcodec_receive_frame.  A frame is taken in hand, or the
\* decoder has none left and decodeNextFrame returns true.
WorkerReceive ==
    /\ wpc = "recv"
    /\ IF wpkt.left > 0
       THEN /\ wpc' = "push"
            /\ \E c \in ConvertResults(wpkt.idx) :
                   wpkt' = [wpkt EXCEPT !.left = wpkt.left - 1, !.conv = c]
       ELSE /\ wpc' = "top"
            /\ wpkt' = NoPkt
    /\ UNCHANGED <<engineVars, queueVars, cbVars, ctlVars, playerVars>>

\* audioFrameQueue.push
QueuePush(q, b) == Append(q, b)

\* decodeNextFrame: convertAudioFrame and the push under queueMutex.
WorkerPush ==
    /\ wpc = "push"
    /\ IF wpkt.conv = "ok"
       THEN /\ queueMutexFree
            /\ audioFrameQueue' =
                   QueuePush(audioFrameQueue,
                             MkBlock(wpkt.idx, nPushed + 1, wpkt.stale))
            /\ nPushed' = nPushed + 1
            /\ wpc' = "recv"
       ELSE /\ wpc' = IF ConvertThrows(wpkt.conv) THEN "crashed" ELSE "recv"
            /\ UNCHANGED <<audioFrameQueue, nPushed>>
    /\ UNCHANGED <<engineVars, audioBuffer, bufferPosition, nPopped, wpkt,
                   cbVars, ctlVars, playerVars>>

\* ========================================================== output callback
\* A callback that leaves in the destination what the device handed over.
Unfilled == <<-1, -1>>

\* A copy length that ignores what is left of the current block.
MinIsFirst(a, b) == a

\* memset(stream, 0, len): a zero byte.  Bytes copied from a block are pairs
\* <<block serial number, offset>> with a serial number of at least 1.
Silence == <<0, 0>>

Min(a, b) == IF a < b THEN a ELSE b

\* A callback that also goes silent as soon as the worker has ended.
OutputSuppressedAtEnd == playbackPaused \/ wpc = "done"

\* A callback that never takes the paused return.
OutputSuppressedNever == FALSE

\* fillAudioBuffer: the test that returns silence while paused.
OutputSuppressed == playbackPaused

\* audioCallback / fillAudioBuffer: entry, with len = DeviceLen.  SDL invokes the callback only
\* while the device is open and not paused, one invocation at a time.
CallbackStart ==
    /\ cbpc = "idle"
    /\ ~crashed
    /\ audioDevice = "running"
    /\ stream' = [i \in 1..DeviceLen |-> Silence]
    /\ IF OutputSuppressed
       THEN cbpc' = "ret" /\ bytesNeeded' = 0
       ELSE cbpc' = "loop" /\ bytesNeeded' = DeviceLen
    /\ UNCHANGED <<engineVars, queueVars, workerVars, ctlVars, playerVars>>

\* A callback that takes the newest block instead of the oldest.
QueueBack(q) == q[Len(q)]

\* audioFrameQueue.front
QueueFront(q) == Head(q)

\* audioFrameQueue.pop
QueuePop(q) == Tail(q)

\* memcpy(stream + streamPos, audioBuffer.data() + bufferPosition, n)
CopyBytes(dst, at, blk, from, n) ==
    [i \in 1..Len(dst) |->
        IF i > at /\ i <= at + n THEN <<blk.sn, from + (i - at)>> ELSE dst[i]]

\* A callback that leaves the clock alone when it pops a block.
PoppedClockKept(frame) == currentTime

\* fillAudioBuffer: currentTime = audioBuffer.timestamp after a pop.
PoppedClock(frame) == frame.pts

\* fillAudioBuffer: one iteration of the while loop.
CallbackIter ==
    /\ cbpc = "loop"
    /\ ~crashed
    /\ LET needPop == bufferPosition >= audioBuffer.size
           streamPos == Len(stream) - bytesNeeded
       IN IF needPop /\ audioFrameQueue = <<>>
          THEN /\ queueMutexFree
               /\ cbpc' = "ret"
               /\ UNCHANGED <<queueVars, bytesNeeded, stream, currentTime, wpc>>
          ELSE LET buf == IF needPop THEN QueueFront(audioFrameQueue) ELSE audioBuffer
                   pos == IF needPop THEN 0 ELSE bufferPosition
                   n == Min(bytesNeeded, buf.size - pos)
               IN /\ needPop => queueMutexFree
                  /\ audioFrameQueue' =
                        IF needPop THEN QueuePop(audioFrameQueue) ELSE audioFrameQueue
                  /\ nPopped' = IF needPop THEN nPopped + 1 ELSE nPopped
                  /\ currentTime' = IF needPop THEN PoppedClock(buf) ELSE currentTime
                  /\ wpc' = IF needPop THEN Notify(wpc) ELSE wpc
                  /\ audioBuffer' = buf
                  /\ bufferPosition' = pos + n
                  /\ stream' = CopyBytes(stream, streamPos, buf, pos, n)
                  /\ bytesNeeded' = bytesNeeded - n
                  /\ cbpc' = IF bytesNeeded - n > 0 THEN "loop" ELSE "ret"
                  /\ UNCHANGED nPushed
    /\ UNCHANGED <<formatContext, srcPos, audioDevice, isDecoding, playbackStarted,
                   playbackPaused, shouldStop, wpkt, ctlVars, playerVars>>

\* fillAudioBuffer returns; the device takes the buffer.
CallbackReturn ==
    /\ cbpc = "ret"
    /\ ~crashed
    /\ cbpc' = "idle"
    /\ bytesNeeded' = 0
    /\ stream' = <<>>
    /\ UNCHANGED <<engineVars, queueVars, workerVars, ctlVars, playerVars>>

\* ============================================================ control thread
\* Return from a call: continue at the caller's label, or become idle.
RetTo(stk) ==
    /\ cpc' = IF stk = <<>> THEN "idle" ELSE Head(stk)
    /\ cstack' = IF stk = <<>> THEN <<>> ELSE Tail(stk)

\* A call made by the user of the API (not by another operation).
ApiCall ==
    /\ cpc = "idle"
    /\ ~crashed
    /\ opsLeft > 0
    /\ opsLeft' = opsLeft - 1

\* clearQueue: the queue after the call.  Blocks present when the call began
\* are marked old; the loop pops every one of them.
MarkOld(q) == [i \in 1..Len(q) |-> [q[i] EXCEPT !.old = TRUE]]

\* A clearQueue that pops once (an if where the while loop is).
clearQueueOnce(q) == IF q = <<>> THEN q ELSE Tail(MarkOld(q))

clearQueue(q) == SubSeq(MarkOld(q), Len(q) + 1, Len(q))

\* A clear that leaves the block being consumed in place.
ClearedBufferKept(b) == b

\* audioBuffer.clear()
ClearedBuffer(b) == NoBlock

\* ---------------------------------------------------------- startPlayback
\* The body of startPlayback, returning to the labels of stk.
\* A startPlayback without its early return.
AlreadyStartedIgnored == FALSE

\* startPlayback: the early return on a started engine.
AlreadyStarted == playbackStarted

StartCall(stk) ==
    /\ RetTo(stk)
    /\ IF AlreadyStarted
       THEN /\ ret' = MkRet("start", TRUE, 0, FALSE)
            /\ UNCHANGED <<audioDevice, queueVars, isDecoding, shouldStop,
                           playbackPaused, wpc, playbackStarted>>
       ELSE \E devOk \in BOOLEAN :
            IF ~devOk
            THEN /\ ret' = MkRet("start", FALSE, 0, FALSE)
                 /\ UNCHANGED <<audioDevice, queueVars, isDecoding, shouldStop,
                                playbackPaused, wpc, playbackStarted>>
            ELSE /\ queueMutexFree
                 /\ audioDevice' = "running"
                 /\ audioFrameQueue' = clearQueue(audioFrameQueue)
                 /\ audioBuffer' = ClearedBuffer(audioBuffer)
                 /\ bufferPosition' = 0
                 /\ nPushed' = Len(clearQueue(audioFrameQueue))
                 /\ nPopped' = 0
                 /\ isDecoding' = TRUE
                 /\ shouldStop' = FALSE
                 /\ playbackPaused' = FALSE
                 /\ wpc' = IF wpc = "none" THEN "top" ELSE "crashed"
                 /\ playbackStarted' = TRUE
                 /\ ret' = MkRet("start", TRUE, 0, FALSE)
    /\ UNCHANGED <<formatContext, srcPos, currentTime, wpkt, cbVars, seekArg,
                   wasPlaying>>

StartPlayback ==
    /\ ApiCall
    /\ StartCall(<<>>)
    /\ UNCHANGED playerVars

\* ----------------------------------------------------------- stopPlayback
\* A stopPlayback without its early return.
NotStartedIgnored == FALSE

\* stopPlayback: the early return on an engine that is not started.
NotStarted == ~playbackStarted

\* stopPlayback up to the join: the early return, or the stop signal.
StopCall(stk) ==
    /\ IF NotStarted
       THEN /\ RetTo(stk)
            /\ ret' = MkRet("stop", TRUE, 0, FALSE)
            /\ UNCHANGED <<shouldStop, isDecoding, wpc>>
       ELSE /\ shouldStop' = TRUE
            /\ isDecoding' = FALSE
            /\ wpc' = Notify(wpc)
            /\ cpc' = "stop_join"
            /\ cstack' = stk
            /\ UNCHANGED ret
    /\ UNCHANGED <<formatContext, srcPos, audioDevice, playbackStarted,
                   playbackPaused, currentTime, queueVars, wpkt, cbVars,
                   seekArg, wasPlaying>>

StopPlayback ==
    /\ ApiCall
    /\ StopCall(<<>>)
    /\ UNCHANGED playerVars

\* A stopPlayback that does not wait for the worker.
JoinSkipped == TRUE

\* decoderThread.join(): enabled once the worker has left decodingLoop.
JoinReturns == wpc = "done"

\* stopPlayback from the join on: join, SDL_CloseAudioDevice (which waits for
\* a running callback), clear the buffers, reset the flags and the clock.
StopJoin ==
    /\ cpc = "stop_join"
    /\ ~crashed
    /\ JoinReturns
    /\ cbpc = "idle"
    /\ queueMutexFree
    /\ wpc' = IF wpc = "done" THEN "none" ELSE wpc
    /\ audioDevice' = "closed"
    /\ audioFrameQueue' = clearQueue(audioFrameQueue)
    /\ audioBuffer' = ClearedBuffer(audioBuffer)
    /\ bufferPosition' = 0
    /\ nPushed' = Len(clearQueue(audioFrameQueue))
    /\ nPopped' = 0
    /\ playbackStarted' = FALSE
    /\ playbackPaused' = FALSE
    /\ currentTime' = 0
    /\ ret' = MkRet("stop", TRUE, 0, FALSE)
    /\ RetTo(cstack)
    /\ UNCHANGED <<formatContext, srcPos, isDecoding, shouldStop, wpkt, cbVars,
                   seekArg, wasPlaying, opsLeft, playerVars>>

\* ------------------------------------------- pausePlayback, resumePlayback
\* pausePlayback: the flag; SDL_PauseAudioDevice follows in PauseDevice.
PauseCall(stk) ==
    /\ IF playbackStarted /\ ~playbackPaused
       THEN /\ playbackPaused' = TRUE
            /\ cpc' = "pause_dev"
            /\ cstack' = stk
            /\ UNCHANGED ret
       ELSE /\ RetTo(stk)
            /\ ret' = MkRet("pause", TRUE, 0, FALSE)
            /\ UNCHANGED playbackPaused

PausePlayback ==
    /\ ApiCall
    /\ PauseCall(<<>>)
    /\ UNCHANGED <<formatContext, srcPos, audioDevice, isDecoding, playbackStarted,
                   shouldStop, currentTime, queueVars, workerVars, cbVars,
                   seekArg, wasPlaying, playerVars>>

\* SDL_PauseAudioDevice(audioDevice, 1): takes the device lock, so it returns
\* only when no callback is running, and none starts afterwards.
PauseDevice ==
    /\ cpc = "pause_dev"
    /\ ~crashed
    /\ cbpc = "idle"
    /\ audioDevice' = "paused"
    /\ ret' = MkRet("pause", TRUE, 0, FALSE)
    /\ RetTo(cstack)
    /\ UNCHANGED <<formatContext, srcPos, isDecoding, playbackStarted,
                   playbackPaused, shouldStop, currentTime, queueVars, workerVars,
                   cbVars, seekArg, wasPlaying, opsLeft, playerVars>>

\* The body of resumePlayback.
ResumeBody ==
    IF playbackStarted /\ playbackPaused
    THEN playbackPaused' = FALSE /\ audioDevice' = "running"
    ELSE UNCHANGED <<playbackPaused, audioDevice>>

ResumePlayback ==
    /\ ApiCall
    /\ ResumeBody
    /\ ret' = MkRet("resume", TRUE, 0, FALSE)
    /\ RetTo(<<>>)
    /\ UNCHANGED <<formatContext, srcPos, isDecoding, playbackStarted, shouldStop,
                   currentTime, queueVars, workerVars, cbVars, seekArg,
                   wasPlaying, playerVars>>

\* -------------------------------------------------------------- seekToTime
\* seekToTime up to av_seek_frame: the source check, wasPlaying, and the
\* flag half of pausePlayback (PauseDevice follows, then SeekFrame).
SeekCall(t, stk) ==
    /\ IF ~formatContext
       THEN /\ RetTo(stk)
            /\ ret' = MkRet("seek", FALSE, t, FALSE)
            /\ UNCHANGED <<seekArg, wasPlaying, playbackPaused>>
       ELSE /\ seekArg' = t
            /\ wasPlaying' = isPlaying
            /\ UNCHANGED ret
            /\ IF isPlaying
               THEN /\ playbackPaused' = TRUE
                    /\ cpc' = "pause_dev"
                    /\ cstack' = <<"seek_av">> \o stk
               ELSE /\ cpc' = "seek_av"
                    /\ cstack' = stk
                    /\ UNCHANGED playbackPaused
    /\ UNCHANGED <<formatContext, srcPos, audioDevice, isDecoding, playbackStarted,
                   shouldStop, currentTime, queueVars, workerVars, cbVars>>

SeekToTime ==
    /\ ApiCall
    /\ \E t \in SeekTargets : SeekCall(t, <<>>)
    /\ UNCHANGED playerVars

\* What av_seek_frame and avcodec_flush_buffers leave of the worker's packet:
\* frames still inside the decoder are discarded, a frame already received
\* stays in the worker's hands and now predates the seek.
FlushedPkt(w, pk) ==
    IF w = "push" THEN [pk EXCEPT !.left = 0, !.stale = TRUE]
    ELSE IF w = "recv" THEN [pk EXCEPT !.left = 0]
    ELSE pk

\* A seekToTime that clears the buffers and sets the clock before it knows
\* whether av_seek_frame succeeded.
SeekFrameClearsFirst ==
    /\ cpc = "seek_av"
    /\ ~crashed
    /\ queueMutexFree
    /\ audioFrameQueue' = <<>>
    /\ audioBuffer' = NoBlock
    /\ bufferPosition' = 0
    /\ nPushed' = 0
    /\ nPopped' = 0
    /\ currentTime' = seekArg
    /\ \E ok \in BOOLEAN :
          IF ok
          THEN /\ srcPos' = seekArg
               /\ wpkt' = FlushedPkt(wpc, wpkt)
               /\ cpc' = "seek_clear"
               /\ UNCHANGED <<cstack, ret>>
          ELSE /\ ret' = MkRet("seek", FALSE, seekArg, wasPlaying)
               /\ RetTo(cstack)
               /\ UNCHANGED <<srcPos, wpkt>>
    /\ UNCHANGED <<formatContext, audioDevice, isDecoding, playbackStarted,
                   playbackPaused, shouldStop, wpc, cbVars,
                   seekArg, wasPlaying, opsLeft, playerVars>>

\* The worker is inside decodeNextFrame, between av_read_frame and the end of
\* the receive loop, using formatContext and codecContext.
WorkerInIteration == wpc \in {"recv", "push"}

\* seekToTime takes no lock that the worker holds while it decodes, so
\* av_seek_frame and avcodec_flush_buffers can run on the contexts the worker
\* is using (a data race): the calls take effect as if they ran between two
\* calls of the worker, or the process dies.
RaceOutcomes == IF WorkerInIteration THEN {"serial", "crash"} ELSE {"serial"}

\* seekToTime: av_seek_frame, which may fail, and avcodec_flush_buffers.
SeekFrame ==
    /\ cpc = "seek_av"
    /\ ~crashed
    /\ \E ok \in BOOLEAN, o \in RaceOutcomes :
          IF o = "crash"
          THEN /\ wpc' = "crashed"
               /\ UNCHANGED <<srcPos, wpkt, cpc, cstack, ret>>
          ELSE IF ok
          THEN /\ srcPos' = seekArg
               /\ wpkt' = FlushedPkt(wpc, wpkt)
               /\ cpc' = "seek_clear"
               /\ UNCHANGED <<cstack, ret, wpc>>
          ELSE /\ ret' = MkRet("seek", FALSE, seekArg, wasPlaying)
               /\ RetTo(cstack)
               /\ UNCHANGED <<srcPos, wpkt, wpc>>
    /\ UNCHANGED <<formatContext, audioDevice, isDecoding, playbackStarted,
                   playbackPaused, shouldStop, currentTime, queueVars, cbVars,
                   seekArg, wasPlaying, opsLeft, playerVars>>

\* A seekToTime that stores the AV_TIME_BASE timestamp in the clock.
SeekClockTimestamp(seconds) == seconds * 1000000

\* seekToTime: the value stored in currentTime.
SeekClock(seconds) == seconds

\* seekToTime after the decoder was flushed: the buffers the call clears.
SeekClearedQueue(q) == clearQueue(q)

SeekClearedBuffer(b) == ClearedBuffer(b)

\* seekToTime: clear the buffers, set the clock, resume if it was playing.
SeekClear ==
    /\ cpc = "seek_clear"
    /\ ~crashed
    /\ queueMutexFree
    /\ audioFrameQueue' = SeekClearedQueue(audioFrameQueue)
    /\ audioBuffer' = SeekClearedBuffer(audioBuffer)
    /\ bufferPosition' = 0
    /\ nPushed' = Len(SeekClearedQueue(audioFrameQueue))
    /\ nPopped' = 0
    /\ currentTime' = SeekClock(seekArg)
    /\ IF wasPlaying THEN ResumeBody ELSE UNCHANGED <<playbackPaused, audioDevice>>
    /\ ret' = MkRet("seek", TRUE, seekArg, wasPlaying)
    /\ RetTo(cstack)
    /\ UNCHANGED <<formatContext, srcPos, isDecoding, playbackStarted, shouldStop,
                   workerVars, cbVars, seekArg, wasPlaying, opsLeft, playerVars>>

\* ------------------------------------------------------- close and openFile
\* close: stopPlayback first, then CloseFree.
Close ==
    /\ ApiCall
    /\ StopCall(<<"close_free">>)
    /\ UNCHANGED playerVars

\* close after stopPlayback: release the contexts and reset the properties.
CloseFree ==
    /\ cpc = "close_free"
    /\ ~crashed
    /\ formatContext' = FALSE
    /\ currentTime' = 0
    /\ ret' = MkRet("close", TRUE, 0, FALSE)
    /\ RetTo(cstack)
    /\ UNCHANGED <<srcPos, audioDevice, isDecoding, playbackStarted, playbackPaused,
                   shouldStop, queueVars, workerVars, cbVars, seekArg, wasPlaying,
                   opsLeft, playerVars>>

\* openFile: close any existing file, then OpenInput.
OpenFile ==
    /\ ApiCall
    /\ StopCall(<<"close_free", "open_input">>)
    /\ UNCHANGED playerVars

\* An openFile whose failure paths leave the input open.
OpenedContextLeaked(ok) == TRUE

\* openFile: formatContext after the call.  avformat_open_input leaves it
\* null on failure; the later failure paths call avformat_close_input or
\* close.
OpenedContext(ok) == ok

\* openFile after close: open the input, find the audio stream, set up the
\* decoder and the resampler.  Every failure leaves formatContext null.
OpenInput ==
    /\ cpc = "open_input"
    /\ ~crashed
    /\ \E ok \in BOOLEAN :
          /\ formatContext' = OpenedContext(ok)
          /\ ret' = MkRet("open", ok, 0, FALSE)
    /\ srcPos' = 0
    /\ RetTo(cstack)
    /\ UNCHANGED <<audioDevice, isDecoding, playbackStarted, playbackPaused,
                   shouldStop, currentTime, queueVars, workerVars, cbVars,
                   seekArg, wasPlaying, opsLeft, playerVars>>

\* =============================================================== MediaPlayer
\* A MediaPlayer method that does not call into the audio engine.
NoEngineCall(stk) ==
    /\ RetTo(stk)
    /\ UNCHANGED <<engineVars, queueVars, workerVars, cbVars, seekArg,
                   wasPlaying, ret>>

\* MediaPlayer::play
MPPlay ==
    /\ ApiCall
    /\ IF (hasVideo \/ hasAudio) /\ ~playing
       THEN /\ IF hasAudio THEN StartCall(<<>>) ELSE NoEngineCall(<<>>)
            /\ playing' = TRUE
       ELSE /\ NoEngineCall(<<>>)
            /\ UNCHANGED playing
    /\ UNCHANGED <<hasAudio, hasVideo, videoPos, videoTime>>

\* MediaPlayer::pause
MPPause ==
    /\ ApiCall
    /\ IF (hasVideo \/ hasAudio) /\ playing
       THEN /\ IF hasAudio
               THEN /\ PauseCall(<<>>)
                    /\ UNCHANGED <<formatContext, srcPos, audioDevice, isDecoding,
                                   playbackStarted, shouldStop, currentTime,
                                   queueVars, workerVars, cbVars, seekArg,
                                   wasPlaying>>
               ELSE NoEngineCall(<<>>)
            /\ playing' = FALSE
       ELSE /\ NoEngineCall(<<>>)
            /\ UNCHANGED playing
    /\ UNCHANGED <<hasAudio, hasVideo, videoPos, videoTime>>

\* MediaPlayer::stop up to the return of stopPlayback.
MPStopCall(stk) ==
    IF hasVideo \/ hasAudio
    THEN IF hasAudio
         THEN StopCall(<<"mp_stop_seek">> \o stk)
         ELSE /\ cpc' = "mp_stop_seek"
              /\ cstack' = stk
              /\ UNCHANGED <<engineVars, queueVars, workerVars, cbVars, seekArg,
                             wasPlaying, ret>>
    ELSE NoEngineCall(stk)

MPStop ==
    /\ ApiCall
    /\ MPStopCall(<<>>)
    /\ UNCHANGED playerVars

\* VideoDecoder::seekToTime, called when a video stream is loaded:
\* av_seek_frame may fail; on success the read position moves to the last
\* frame at or before the target.  frame->pts is not touched.
VideoSeek(t) ==
    /\ IF hasVideo
       THEN \E vok \in BOOLEAN :
               videoPos' = IF vok THEN Min(t, NumVideoFrames - 1) ELSE videoPos
       ELSE UNCHANGED videoPos
    /\ UNCHANGED videoTime

\* MediaPlayer::stop after stopPlayback: playing = false, seek to the beginning.
MPStopSeek ==
    /\ cpc = "mp_stop_seek"
    /\ ~crashed
    /\ playing' = FALSE
    /\ VideoSeek(0)
    /\ IF hasAudio /\ formatContext
       THEN SeekCall(0, cstack)
       ELSE NoEngineCall(cstack)
    /\ UNCHANGED <<opsLeft, hasAudio, hasVideo>>

\* MediaPlayer::seekToTime
MPSeek ==
    /\ ApiCall
    /\ \E t \in SeekTargets :
          /\ VideoSeek(t)
          /\ IF hasAudio THEN SeekCall(t, <<>>) ELSE NoEngineCall(<<>>)
    /\ UNCHANGED <<playing, hasAudio, hasVideo>>

\* MediaPlayer::render -> renderVideoFrame -> VideoDecoder::getNextFrame, run
\* by the main loop between two commands: while a video stream is loaded
\* and the player is playing, the next video frame is decoded into frame.
MPRender ==
    /\ cpc = "idle"
    /\ ~crashed
    /\ hasVideo
    /\ playing
    /\ videoPos < NumVideoFrames
    /\ videoTime' = videoPos
    /\ videoPos' = videoPos + 1
    /\ UNCHANGED <<engineVars, queueVars, workerVars, cbVars, ctlVars,
                   playing, hasAudio, hasVideo>>

\* VideoDecoder::getCurrentTime (the player asks only while hasVideo, which
\* implies an open video decoder with an allocated frame).
VideoGetCurrentTime == IF ~hasVideo THEN 0 ELSE videoTime

\* MediaPlayer::getCurrentTime
MPGetCurrentTime ==
    IF hasVideo THEN VideoGetCurrentTime
    ELSE IF hasAudio THEN currentTime
    ELSE 0

\* MediaPlayer::loadMediaFile: stop first, then MPLoadOpen.
MPLoad ==
    /\ ApiCall
    /\ MPStopCall(<<"mp_load_open">>)
    /\ UNCHANGED playerVars

\* loadMediaFile after stop: reset the flags, try the video decoder, then
\* call AudioDecoder::openFile.
MPLoadOpen ==
    /\ cpc = "mp_load_open"
    /\ ~crashed
    /\ hasVideo' \in BOOLEAN
    /\ videoPos' = 0
    /\ videoTime' = NoPts
    /\ hasAudio' = FALSE
    /\ StopCall(<<"close_free", "open_input", "mp_load_audio">>)
    /\ UNCHANGED <<opsLeft, playing>>

\* loadMediaFile after openFile returned: hasAudio = true on success.
MPLoadAudio ==
    /\ cpc = "mp_load_audio"
    /\ ~crashed
    /\ hasAudio' = ret.ok
    /\ NoEngineCall(cstack)
    /\ UNCHANGED <<opsLeft, playing, hasVideo, videoPos, videoTime>>

Next ==
    \/ WorkerLoop
    \/ WorkerBlock
    \/ WorkerWake
    \/ SpuriousWake
    \/ WorkerReceive
    \/ WorkerPush
    \/ CallbackStart
    \/ CallbackIter
    \/ CallbackReturn
    \/ StopJoin
    \/ PauseDevice
    \/ SeekFrame
    \/ SeekClear
    \/ CloseFree
    \/ OpenInput
    \/ OpenFile
    \/ Close
    \/ StartPlayback
    \/ StopPlayback
    \/ PausePlayback
    \/ ResumePlayback
    \/ SeekToTime

Spec == Init /\ [][Next]_vars

PlayerNext ==
    \/ WorkerLoop
    \/ WorkerBlock
    \/ WorkerWake
    \/ SpuriousWake
    \/ WorkerReceive
    \/ WorkerPush
    \/ CallbackStart
    \/ CallbackIter
    \/ CallbackReturn
    \/ StopJoin
    \/ PauseDevice
    \/ SeekFrame
    \/ SeekClear
    \/ CloseFree
    \/ OpenInput
    \/ MPStopSeek
    \/ MPLoadOpen
    \/ MPLoadAudio
    \/ MPLoad
    \/ MPPlay
    \/ MPPause
    \/ MPStop
    \/ MPSeek
    \/ MPRender

\* The audio engine driven through MediaPlayer only.
PlayerSpec == LongInit /\ [][PlayerNext]_vars

\* The worker and the callback run whenever they can; an operation of the
\* control thread that has begun goes on; the user need not call anything.
\* A step that needs queueMutex or the device lock gets it if the lock is
\* free again and again (strong fairness).  A wake-up without a notification
\* is never owed.
Fairness ==
    /\ WF_vars(WorkerLoop)
    /\ WF_vars(WorkerBlock)
    /\ WF_vars(WorkerWake)
    /\ WF_vars(WorkerReceive)
    /\ WF_vars(WorkerPush)
    /\ WF_vars(CallbackStart)
    /\ SF_vars(CallbackIter)
    /\ WF_vars(CallbackReturn)
    /\ SF_vars(StopJoin)
    /\ SF_vars(PauseDevice)
    /\ WF_vars(OpenInput)
    /\ WF_vars(CloseFree)

\* The engine under open, start, pause, resume and stop.
TransportNext ==
    \/ WorkerLoop
    \/ WorkerBlock
    \/ WorkerWake
    \/ SpuriousWake
    \/ WorkerReceive
    \/ WorkerPush
    \/ CallbackStart
    \/ CallbackIter
    \/ CallbackReturn
    \/ StopJoin
    \/ PauseDevice
    \/ CloseFree
    \/ OpenInput
    \/ OpenFile
    \/ StartPlayback
    \/ StopPlayback
    \/ PausePlayback
    \/ ResumePlayback

\* ... with a fair scheduler.
FairSpec == Init /\ [][TransportNext]_vars /\ Fairness

\* The player under load, play and stop.
LoadNext ==
    \/ WorkerLoop
    \/ WorkerBlock
    \/ WorkerWake
    \/ SpuriousWake
    \/ WorkerReceive
    \/ WorkerPush
    \/ CallbackStart
    \/ CallbackIter
    \/ CallbackReturn
    \/ StopJoin
    \/ SeekFrame
    \/ SeekClear
    \/ CloseFree
    \/ OpenInput
    \/ MPStopSeek
    \/ MPLoadOpen
    \/ MPLoadAudio
    \/ MPLoad
    \/ MPPlay
    \/ MPStop
    \/ MPRender

LoadSpec == Init /\ [][LoadNext]_vars

\* The engine under open, start and seek.
SeekNext ==
    \/ WorkerLoop
    \/ WorkerBlock
    \/ WorkerWake
    \/ SpuriousWake
    \/ WorkerReceive
    \/ WorkerPush
    \/ CallbackStart
    \/ CallbackIter
    \/ CallbackReturn
    \/ StopJoin
    \/ PauseDevice
    \/ SeekFrame
    \/ SeekClear
    \/ CloseFree
    \/ OpenInput
    \/ OpenFile
    \/ StartPlayback
    \/ SeekToTime

\* ... with a fair scheduler: a seekToTime that has begun also goes on.
FairSeekSpec ==
    /\ Init
    /\ [][SeekNext]_vars
    /\ Fairness
    /\ WF_vars(SeekFrame)
    /\ WF_vars(SeekClear)

\* The engine under open, start, pause and seek.
PausedSeekNext ==
    \/ WorkerLoop
    \/ WorkerBlock
    \/ WorkerWake
    \/ SpuriousWake
    \/ WorkerReceive
    \/ WorkerPush
    \/ CallbackStart
    \/ CallbackIter
    \/ CallbackReturn
    \/ StopJoin
    \/ PauseDevice
    \/ SeekFrame
    \/ SeekClear
    \/ CloseFree
    \/ OpenInput
    \/ OpenFile
    \/ StartPlayback
    \/ PausePlayback
    \/ SeekToTime

PausedSeekSpec == LongInit /\ [][PausedSeekNext]_vars

\* =================================================================== claims
HardCap == HighWatermark + MaxFramesPerPacket

\* C1 (FIFO): with no clearQueue in between, the k-th block the callback pops
\* is the k-th block the worker pushed.  Blocks carry their push number since
\* the last clear: the queue always holds the pushes nPopped+1 .. nPushed in
\* order, and the block the callback last popped is push number nPopped, so
\* no block is popped twice, skipped or reordered.
FifoOrder ==
    /\ nPushed = nPopped + Len(audioFrameQueue)
    /\ \A i \in 1..Len(audioFrameQueue) : audioFrameQueue[i].sn = nPopped + i
    /\ nPopped > 0 => audioBuffer.sn = nPopped

\* C1 witness: the callback has popped blocks while the worker pushed more.
FifoWitness ==
    /\ nPopped >= 3
    /\ Len(audioFrameQueue) >= 2
    /\ wpc = "push"

\* C2 (bounded buffer): the queue never holds more than HighWatermark plus
\* the number of blocks one packet can yield.
QueueBounded == Len(audioFrameQueue) <= HardCap

\* C2 witness: the cap is reached.
QueueAtCap == Len(audioFrameQueue) = HardCap

JoinComplete == (ret.op = "stop" \/ ~playbackStarted) => wpc = "none"

\* C4 witness: stopPlayback has returned on an engine whose worker had read
\* packets.
JoinWitness ==
    /\ ret.op = "stop"
    /\ cpc = "idle"
    /\ srcPos >= 3

ClockMonotone ==
    [][(isPlaying /\ isPlaying') => currentTime' >= currentTime]_vars

SeekUntilFailure ==
    \/ SeekToTime
    \/ (PauseDevice /\ cstack # <<>> /\ Head(cstack) = "seek_av")
    \/ (SeekFrame /\ cpc' # "seek_clear")

\* C8 (seek failure leaves the position unchanged): no step of a seekToTime
\* call that returns false writes currentTime, the queue, audioBuffer or
\* bufferPosition.
SeekFailureFrame ==
    [][SeekUntilFailure =>
          UNCHANGED <<currentTime, audioFrameQueue, audioBuffer, bufferPosition>>]_vars

\* C8 witness: seekToTime returned false during playback with blocks queued
\* and a block partly consumed.
SeekFailedWitness ==
    /\ cpc = "idle"
    /\ ret.op = "seek"
    /\ ~ret.ok
    /\ ret.wasPlaying
    /\ Len(audioFrameQueue) >= 2
    /\ bufferPosition > 0
    /\ bufferPosition < audioBuffer.size

\* C9 (pause then play returns to Playing): when MediaPlayer::play turns
\* playing on with an audio stream loaded and the engine started, the engine
\* is not paused afterwards.
PauseThenPlayResumes ==
    [][(MPPlay /\ ~playing /\ playing' /\ hasAudio /\ playbackStarted)
          => ~playbackPaused']_vars

StopPostState ==
    [][StopJoin =>
          /\ audioFrameQueue' = <<>>
          /\ audioBuffer'.size = 0
          /\ bufferPosition' = 0
          /\ currentTime' = 0
          /\ ~playbackStarted'
          /\ ~playbackPaused'
          /\ audioDevice' = "closed"
          /\ wpc' = "none"]_vars

\* C11 witness: stopPlayback has returned on an engine that had been started
\* and whose worker had read most of the source.
StoppedWitness ==
    /\ cpc = "idle"
    /\ ret.op = "stop"
    /\ shouldStop
    /\ audioDevice = "closed"
    /\ srcPos >= 12

\* C12 (stop idempotence): stopPlayback on an engine that is not started,
\* called directly or by close, returns at once and changes nothing.
StopIdempotent ==
    [][/\ (StopPlayback /\ ~playbackStarted) =>
             /\ cpc' = "idle"
             /\ UNCHANGED <<engineVars, queueVars, workerVars, cbVars>>
       /\ (Close /\ ~playbackStarted) =>
             /\ cpc' = "close_free"
             /\ UNCHANGED <<engineVars, queueVars, workerVars, cbVars>>]_vars

\* C12 witness: stopPlayback has returned on an engine that is not started
\* (shouldStop is still clear), with an open source and the clock at a seek
\* target, which a stop of a started engine would have reset.
StopNotStartedWitness ==
    /\ cpc = "idle"
    /\ ret.op = "stop"
    /\ formatContext
    /\ ~shouldStop
    /\ ~playbackStarted
    /\ currentTime = 9

\* The callback's step that finds the current block used up and the queue
\* empty.
UnderRun ==
    /\ CallbackIter
    /\ bufferPosition >= audioBuffer.size
    /\ audioFrameQueue = <<>>

\* C13 (under-run is silent and non-blocking): on under-run the callback
\* goes straight to its return, every destination byte it has not filled is
\* zero, and the queue, the current block, the clock, the flags and the
\* worker are left as they were.
UnderRunSilent ==
    [][UnderRun =>
          /\ cbpc' = "ret"
          /\ \A i \in (Len(stream) - bytesNeeded + 1)..Len(stream) :
                 stream'[i] = <<0, 0>>
          /\ UNCHANGED <<engineVars, queueVars, workerVars>>]_vars

\* C13 witness: the callback returns on under-run after filling part of the
\* destination from a block.
UnderRunWitness ==
    /\ cbpc = "ret"
    /\ ~playbackPaused
    /\ bytesNeeded > 0
    /\ audioFrameQueue = <<>>
    /\ bufferPosition >= audioBuffer.size
    /\ stream[1] # <<0, 0>>
    /\ wpc = "push"

\* The callback always completes (checked under FairSpec).
CallbackCompletes == (cbpc # "idle") ~> (cbpc = "idle" \/ crashed)

\* C14 (transient decode errors are skipped): the worker leaves the decode
\* loop only at the end of the stream or on the stop signal.
LoopEndsOnlyOnEosOrStop ==
    [][(wpc # "done" /\ wpc' = "done") =>
          (srcPos >= NumPackets \/ shouldStop \/ ~isDecoding)]_vars

\* C15 (end-of-stream drains buffered audio): once the worker has left the
\* decode loop while the engine is playing, the callback eventually empties
\* the queue, unless the engine is paused or stopped first.
EosDrains ==
    (wpc = "done" /\ isPlaying /\ ~shouldStop)
        ~> (audioFrameQueue = <<>> \/ ~isPlaying \/ shouldStop)

\* C15 witness: the worker read the source to its end and exited, the engine
\* is still started and playing, the callback has popped every block and
\* now returns silence.
EosDrainedWitness ==
    /\ wpc = "done"
    /\ srcPos = NumPackets
    /\ isPlaying
    /\ ~shouldStop
    /\ audioFrameQueue = <<>>
    /\ nPopped = nPushed
    /\ nPopped >= NumPackets - 1
    /\ cbpc = "ret"
    /\ bytesNeeded = DeviceLen

\* C16 (open failure leaves the engine Closed): when openFile has returned
\* false no source is open, no worker and no device exist, the engine is not
\* started, and loadMediaFile leaves hasAudio false.
OpenFailureClosed ==
    (cpc = "idle" /\ ret.op = "open" /\ ~ret.ok) =>
        /\ ~formatContext
        /\ wpc = "none"
        /\ audioDevice = "closed"
        /\ ~playbackStarted
        /\ ~hasAudio

\* C16 witness: loadMediaFile failed to open the audio of a new file after
\* an earlier file had been loaded and played.
OpenFailedWitness ==
    /\ cpc = "idle"
    /\ ret.op = "open"
    /\ ~ret.ok
    /\ shouldStop
    /\ srcPos = 0
    /\ ~hasAudio

\* C17 (device failure is surfaced): when startPlayback has returned false
\* the player is not in the playing state.
DeviceFailureSurfaced ==
    (cpc = "idle" /\ ret.op = "start" /\ ~ret.ok) => ~playing

\* C18 (the audio clock is ground truth): whenever an audio stream is
\* loaded, the position the player reports is the audio engine's clock.
AudioClockIsPosition == hasAudio => MPGetCurrentTime = currentTime

\* C19 (a throttled producer is released at the low watermark): whenever the
\* worker is blocked in the high-watermark wait and the queue holds at most
\* LowWatermark blocks, the worker eventually leaves the wait.
ThrottleReleased ==
    (wpc = "blocked" /\ Len(audioFrameQueue) <= LowWatermark) ~> (wpc # "blocked")

\* The worker reads a packet in this step.
ReadsPacket == srcPos' # srcPos /\ (WorkerLoop \/ WorkerWake)

\* C20 (watermark hysteresis): the worker reads a packet from the loop head
\* only when the queue holds at most 10 blocks, reads a packet after having
\* been throttled only when the queue holds at most 5 blocks and no stop is
\* signalled, and after waking on the stop signal it leaves the loop without
\* reading or pushing.
Hysteresis ==
    [][/\ (WorkerLoop /\ ReadsPacket) => Len(audioFrameQueue) <= 10
       /\ (WorkerWake /\ ReadsPacket) =>
             (Len(audioFrameQueue) <= 5 /\ ~shouldStop)
       /\ (WorkerWake /\ shouldStop) =>
             (wpc' = "done" /\ UNCHANGED <<srcPos, audioFrameQueue, wpkt>>)]_vars

\* C20 witness: the worker was throttled, the callback has drained the queue
\* to the low watermark and woken it, and no stop is signalled: its next
\* step reads a packet.
ReleasedWitness ==
    /\ wpc = "woken"
    /\ Len(audioFrameQueue) = LowWatermark
    /\ ~shouldStop
    /\ isPlaying
    /\ nPopped >= 6

\* C21 (decoder exclusivity): the control thread runs av_seek_frame and
\* avcodec_flush_buffers (seekToTime) or frees the contexts (close) only
\* while the worker is not inside a decodeNextFrame iteration.
DecoderExclusive ==
    [][(SeekFrame \/ CloseFree) => ~WorkerInIteration]_vars

\* C22 (queue timestamp order): whenever no control operation is in progress,
\* the timestamps of the blocks in audioFrameQueue, read head to tail, are
\* non-decreasing, also after seeks made while the worker runs.
QueueTimestampsOrdered ==
    cpc = "idle" =>
        \A i, j \in 1..Len(audioFrameQueue) :
            i < j => audioFrameQueue[i].pts <= audioFrameQueue[j].pts

\* C23 (no pre-seek packet survives a seek): once seekToTime has returned,
\* no block in the queue or in the callback's hands comes from a packet the
\* worker read before the seek repositioned the source.
NoPreSeekBlock ==
    cpc = "idle" =>
        /\ \A i \in 1..Len(audioFrameQueue) : ~audioFrameQueue[i].stale
        /\ ~audioBuffer.stale

\* C24 (converter errors are fatal): when swr_convert reports an error for a
\* decoded frame, the worker stops; it does not go on to the next frame as
\* if nothing had happened.
ConverterErrorFatal ==
    [][(WorkerPush /\ wpkt.conv = "error") => wpc' \in {"done", "crashed"}]_vars

\* C25 (zero-sample conversions produce no block): when the conversion of a
\* frame yields no output samples (estimated count <= 0, or swr_convert
\* returns 0), nothing is pushed and the worker goes on with its receive
\* loop; and every queued block has a positive length.
ZeroSamplesNoBlock ==
    [][/\ (WorkerPush /\ wpkt.conv \in {"none", "zero"}) =>
             (wpc' = "recv" /\ UNCHANGED audioFrameQueue)
       /\ \A i \in 1..Len(audioFrameQueue') : audioFrameQueue'[i].size > 0]_vars

\* C26 (paused callback frame): a callback invocation that finds
\* playbackPaused set fills the whole destination with zeros and returns;
\* it leaves audioFrameQueue, audioBuffer, bufferPosition and currentTime
\* unchanged, pops nothing and does not notify the worker.
PausedCallbackFrame ==
    [][/\ (CallbackStart /\ playbackPaused) =>
             /\ cbpc' = "ret"
             /\ stream' = [i \in 1..DeviceLen |-> <<0, 0>>]
             /\ UNCHANGED <<audioFrameQueue, audioBuffer, bufferPosition,
                            nPopped, currentTime, wpc>>
       /\ (CallbackReturn /\ bytesNeeded = 0 /\ stream = [i \in 1..DeviceLen |-> <<0, 0>>]) =>
             UNCHANGED <<audioFrameQueue, audioBuffer, bufferPosition,
                         nPopped, currentTime, wpc>>]_vars

\* C26 witness: a callback has taken the paused return although blocks were
\* queued and a partly consumed block was in its hands.
PausedCallbackWitness ==
    /\ cbpc = "ret"
    /\ playbackPaused
    /\ audioDevice = "running"
    /\ stream = [i \in 1..DeviceLen |-> <<0, 0>>]
    /\ Len(audioFrameQueue) >= 2
    /\ bufferPosition < audioBuffer.size

\* C27 (clock follows consumption): a callback step that pops a block sets
\* currentTime to the timestamp of that block; a callback step that pops
\* nothing leaves currentTime unchanged; no step of the decode worker changes
\* currentTime.
ClockFollowsConsumption ==
    [][/\ (CallbackIter /\ nPopped' # nPopped) =>
             /\ audioBuffer' = Head(audioFrameQueue)
             /\ currentTime' = audioBuffer'.pts
       /\ ((CallbackStart \/ CallbackIter \/ CallbackReturn) /\ nPopped' = nPopped) =>
             currentTime' = currentTime
       /\ (WorkerLoop \/ WorkerBlock \/ WorkerWake \/ SpuriousWake
             \/ WorkerReceive \/ WorkerPush) =>
             currentTime' = currentTime]_vars

\* C27 witness: one invocation has popped two blocks and the clock stands
\* at the timestamp of the second.
ClockFollowsWitness ==
    /\ cbpc = "ret"
    /\ bytesNeeded = 0
    /\ stream[1][1] > 0
    /\ stream[2][1] = stream[1][1] + 1
    /\ audioBuffer.sn = stream[2][1]
    /\ currentTime = audioBuffer.pts
    /\ currentTime >= 3

\* C28 (byte-exact hand-off): each iteration of the callback's loop pops the
\* next block exactly when the current one is used up, copies
\* min(bytes still needed, bytes left in the block) bytes of it, in order
\* from bufferPosition on, to the next free place of the destination, and
\* advances bufferPosition by that count; nothing else of the destination
\* changes, and 0 <= bufferPosition <= size of the current block.
ByteExactHandOff ==
    [][CallbackIter =>
         LET popped == nPopped' # nPopped
             from == IF popped THEN 0 ELSE bufferPosition
             n == bufferPosition' - from
             at == DeviceLen - bytesNeeded
         IN /\ popped <=> (bufferPosition >= audioBuffer.size
                             /\ audioFrameQueue # <<>>)
            /\ popped => /\ audioBuffer' = Head(audioFrameQueue)
                         /\ audioFrameQueue' = Tail(audioFrameQueue)
            /\ ~popped => UNCHANGED <<audioBuffer, audioFrameQueue>>
            /\ (bufferPosition >= audioBuffer.size /\ audioFrameQueue = <<>>) =>
                  UNCHANGED <<stream, bufferPosition, bytesNeeded>>
            /\ (popped \/ bufferPosition < audioBuffer.size) =>
                  /\ n > 0
                  /\ (n = bytesNeeded \/ n = audioBuffer'.size - from)
                  /\ n <= bytesNeeded
                  /\ n <= audioBuffer'.size - from
            /\ bytesNeeded' = bytesNeeded - n
            /\ \A i \in 1..DeviceLen :
                  stream'[i] = IF i > at /\ i <= at + n
                               THEN <<audioBuffer'.sn, from + (i - at)>>
                               ELSE stream[i]
            /\ bufferPosition' >= 0
            /\ bufferPosition' <= audioBuffer'.size]_vars

\* C28 witness: an invocation has delivered the second byte of a block whose
\* first byte went out with the invocation before, followed by the first
\* byte of the next block.
HandOffWitness ==
    /\ cbpc = "ret"
    /\ bytesNeeded = 0
    /\ stream[1][2] = 2
    /\ stream[2] = <<stream[1][1] + 1, 1>>
    /\ audioBuffer.sn = stream[2][1]
    /\ bufferPosition = 1
    /\ nPopped >= 3

\* C29 (end of stream is observable): when the worker leaves its loop without
\* a stop signal, at end of stream or on a decode error, some flag of the
\* engine that the control thread can read changes.
EndOfStreamObservable ==
    [][(wpc # "done" /\ wpc' = "done" /\ ~shouldStop) =>
          <<isDecoding, playbackStarted, playbackPaused, shouldStop>>'
              # <<isDecoding, playbackStarted, playbackPaused, shouldStop>>]_vars

\* startPlayback creates a worker only when none is attached to
\* decoderThread, so there is never more than one.
WorkerNeverReplaced ==
    [][(StartPlayback /\ wpc' # wpc) => (wpc = "none" /\ wpc' = "top")]_vars

\* C30 (single worker): startPlayback assigns decoderThread only when no
\* worker is attached, so at most one worker exists; and a running worker
\* ends only by leaving its loop on the stop signal or at end of stream.
SingleWorker ==
    [][/\ (StartPlayback /\ wpc' # wpc) => (wpc = "none" /\ wpc' = "top")
       /\ (wpc \notin {"none", "done", "crashed"}
             /\ wpc' \in {"none", "done", "crashed"}) =>
             (wpc' = "done" /\ (shouldStop \/ srcPos >= NumPackets))]_vars

\* C31 (a failed seek does not change the transport state): when seekToTime,
\* called while playing, has returned false because av_seek_frame failed,
\* the engine is still playing: playbackPaused is false and the device runs.
FailedSeekKeepsPlaying ==
    (cpc = "idle" /\ ret.op = "seek" /\ ~ret.ok /\ ret.wasPlaying) =>
        (isPlaying /\ ~playbackPaused /\ audioDevice = "running")

\* C32 (seek after end of stream resumes decoding): when the worker has left
\* its loop with playback still started and a later seekToTime to a position
\* before the end has returned true on the playing engine, blocks of the new
\* position are eventually pushed into the queue the seek emptied.
SeekAfterEosResumes ==
    (/\ wpc = "done"
     /\ cpc = "idle"
     /\ ret.op = "seek"
     /\ ret.ok
     /\ srcPos = ret.t
     /\ srcPos < NumPackets
     /\ isPlaying
     /\ audioDevice = "running")
        ~> (audioFrameQueue # <<>> \/ wpc \notin {"done", "crashed"})

\* close and openFile release or replace the contexts only after the worker
\* has been joined and the device closed.
ReleaseAfterJoin ==
    [][(CloseFree \/ OpenInput) => (wpc = "none" /\ audioDevice = "closed")]_vars

\* C33 (worker implies open source): a decode worker runs and the device
\* callback is registered only while an audio source is open.
WorkerImpliesOpenSource ==
    (\/ wpc \in {"top", "toblock", "blocked", "woken", "recv", "push"}
     \/ audioDevice # "closed")
        => formatContext

====
